---- MODULE Spec2Model ----
(***************************************************************************)
(* A model of the VaultKit link graph (src/src/graph.ts) and of the shared *)
(* filter and pagination helpers (filter.ts).  Strings are sequences of    *)
(* one-character atoms; a JavaScript Map is a record of its keys in        *)
(* insertion order and its values, a JavaScript Set a duplicate-free       *)
(* sequence in insertion order.                                            *)
(***************************************************************************)
EXTENDS Integers, Sequences, FiniteSets, TLC

VARIABLES
    vault,   \* the files scanVault returns, in its sorted order
    pc,      \* "start" before buildGraph has run, "serve" after
    state,   \* the GraphState: notes, forward, backward, missing
    result,  \* the operation being answered, its arguments and its return value
    pending  \* the index a rebuild has constructed and not yet installed

vars == <<vault, pc, state, result, pending>>

-----------------------------------------------------------------------------
(* Bounds of the model. *)

MaxNotes == 3      \* files in the vault
MaxLinks == 3      \* wikilink occurrences in the whole vault
MaxDepth == 2      \* largest maxDepth given to traverse
MaxPage == 2       \* largest limit and offset given to a list operation

-----------------------------------------------------------------------------
(* Characters.  "aacute" is U+00E1, "Aacute" U+00C1, "acute" the combining *)
(* mark U+0301 that NFD splits them into; ".md" is the file extension.     *)

NonAscii == {"aacute", "Aacute", "acute"}

Null == [null |-> TRUE]

Some(v) == [some |-> v]

Range(s) == {s[i] : i \in DOMAIN s}

SeqsUpTo(S, n) == UNION {[1..k -> S] : k \in 0..n}

RECURSIVE Flatten(_)
Flatten(ss) == IF ss = <<>> THEN <<>> ELSE Head(ss) \o Flatten(Tail(ss))

RECURSIVE Filter(_, _)
Filter(s, Drop) ==
    IF s = <<>> THEN <<>>
    ELSE IF Head(s) \in Drop THEN Filter(Tail(s), Drop)
    ELSE <<Head(s)>> \o Filter(Tail(s), Drop)

LowerChar(c) ==
    CASE c = "A" -> "a"
      [] c = "B" -> "b"
      [] c = "Aacute" -> "aacute"
      [] OTHER -> c

toLowerCase(s) == [i \in DOMAIN s |-> LowerChar(s[i])]

IsSpace(c) == c \in {" ", "\n"}

RECURSIVE trimStart(_)
trimStart(s) ==
    IF s # <<>> /\ IsSpace(Head(s)) THEN trimStart(Tail(s)) ELSE s

RECURSIVE trimEnd(_)
trimEnd(s) ==
    IF s # <<>> /\ IsSpace(s[Len(s)]) THEN trimEnd(SubSeq(s, 1, Len(s) - 1)) ELSE s

trim(s) == trimEnd(trimStart(s))

NfdChar(c) ==
    CASE c = "aacute" -> <<"a", "acute">>
      [] c = "Aacute" -> <<"A", "acute">>
      [] OTHER -> <<c>>

nfd(s) == Flatten([i \in DOMAIN s |-> NfdChar(s[i])])

\* Mutant of normalize: the case is kept.
normalizeKeepCase(name) == trim(name)

normalize(name) == toLowerCase(trim(name))

\* Mutant of normalizeFuzzy: dashes and underscores are kept.
normalizeFuzzyKeepDash(name) ==
    Filter(nfd(toLowerCase(trim(name))), NonAscii)

normalizeFuzzy(name) ==
    Filter(nfd(Filter(toLowerCase(trim(name)), {"-", "_"})), NonAscii)

-----------------------------------------------------------------------------
(* JavaScript Map and Set, both iterated in insertion order. *)

EmptyMap == [keys |-> <<>>, vals |-> <<>>]

MapHas(m, k) == k \in Range(m.keys)

MapIndex(m, k) == CHOOSE i \in DOMAIN m.keys : m.keys[i] = k

MapGet(m, k) == m.vals[MapIndex(m, k)]

MapSet(m, k, v) ==
    IF MapHas(m, k)
    THEN [m EXCEPT !.vals[MapIndex(m, k)] = v]
    ELSE [keys |-> Append(m.keys, k), vals |-> Append(m.vals, v)]

MapSize(m) == Len(m.keys)

SetAdd(s, x) == IF x \in Range(s) THEN s ELSE Append(s, x)

RECURSIVE NewSet(_)
NewSet(xs) ==
    IF xs = <<>> THEN <<>>
    ELSE SetAdd(NewSet(SubSeq(xs, 1, Len(xs) - 1)), xs[Len(xs)])

-----------------------------------------------------------------------------
(* The vault on disk and readNote. *)

VaultPath == <<"/", "v">>

RECURSIVE LastSlash(_)
LastSlash(p) ==
    IF p = <<>> THEN 0
    ELSE IF p[Len(p)] = "/" THEN Len(p)
    ELSE LastSlash(SubSeq(p, 1, Len(p) - 1))

basename(p, ext) ==
    LET b == SubSeq(p, LastSlash(p) + 1, Len(p))
    IN  IF Len(b) > Len(ext) /\ SubSeq(b, Len(b) - Len(ext) + 1, Len(b)) = ext
        THEN SubSeq(b, 1, Len(b) - Len(ext))
        ELSE b

readNote(file) ==
    [path |-> file.path,
     name |-> basename(file.path, <<".md">>),
     content |-> file.content,
     wikilinks |-> file.wikilinks,
     frontmatterTags |-> file.frontmatterTags,
     inlineTags |-> file.inlineTags,
     mtime |-> file.mtime]

-----------------------------------------------------------------------------
(* buildGraph and buildAdjacency. *)

RECURSIVE ReadAll(_, _)
ReadAll(files, notes) ==
    IF files = <<>> THEN notes
    ELSE LET f == Head(files)
         IN  IF f.readable
             THEN LET note == readNote(f)
                  IN  ReadAll(Tail(files), MapSet(notes, normalize(note.name), note))
             ELSE ReadAll(Tail(files), notes)

EmptyAdj == [forward |-> EmptyMap, backward |-> EmptyMap, missing |-> EmptyMap]

AddTo(m, k, x) ==
    MapSet(m, k, SetAdd(IF MapHas(m, k) THEN MapGet(m, k) ELSE <<>>, x))

\* Mutants of AddTargets: the backward entry written only for a target that
\* exists, and the missing entry written whether or not the target exists.
RECURSIVE AddTargetsBackwardIfExists(_, _, _, _)
AddTargetsBackwardIfExists(adj, sourceKey, targets, notes) ==
    IF targets = <<>> THEN adj
    ELSE LET t == Head(targets)
             back == IF MapHas(notes, t) THEN AddTo(adj.backward, t, sourceKey)
                     ELSE adj.backward
             miss == IF MapHas(notes, t) THEN adj.missing
                     ELSE AddTo(adj.missing, t, sourceKey)
         IN  AddTargetsBackwardIfExists(
                 [adj EXCEPT !.backward = back, !.missing = miss],
                 sourceKey, Tail(targets), notes)

RECURSIVE AddTargetsMissingAlways(_, _, _, _)
AddTargetsMissingAlways(adj, sourceKey, targets, notes) ==
    IF targets = <<>> THEN adj
    ELSE LET t == Head(targets)
             back == AddTo(adj.backward, t, sourceKey)
             miss == AddTo(adj.missing, t, sourceKey)
         IN  AddTargetsMissingAlways(
                 [adj EXCEPT !.backward = back, !.missing = miss],
                 sourceKey, Tail(targets), notes)

RECURSIVE AddTargets(_, _, _, _)
AddTargets(adj, sourceKey, targets, notes) ==
    IF targets = <<>> THEN adj
    ELSE LET t == Head(targets)
             back == AddTo(adj.backward, t, sourceKey)
             miss == IF MapHas(notes, t) THEN adj.missing
                     ELSE AddTo(adj.missing, t, sourceKey)
         IN  AddTargets([adj EXCEPT !.backward = back, !.missing = miss],
                        sourceKey, Tail(targets), notes)

\* A variant that records a source by the name of its note.
RECURSIVE AdjacencyLoopByName(_, _, _)
AdjacencyLoopByName(adj, i, notes) ==
    IF i > MapSize(notes) THEN adj
    ELSE LET sourceKey == notes.keys[i]
             note == notes.vals[i]
             targets == NewSet([j \in DOMAIN note.wikilinks |->
                                    normalize(note.wikilinks[j])])
             fwd == MapSet(adj.forward, sourceKey, targets)
         IN  AdjacencyLoopByName(AddTargets([adj EXCEPT !.forward = fwd],
                                            note.name, targets, notes),
                                 i + 1, notes)

RECURSIVE AdjacencyLoop(_, _, _)
AdjacencyLoop(adj, i, notes) ==
    IF i > MapSize(notes) THEN adj
    ELSE LET sourceKey == notes.keys[i]
             note == notes.vals[i]
             targets == NewSet([j \in DOMAIN note.wikilinks |->
                                    normalize(note.wikilinks[j])])
             fwd == MapSet(adj.forward, sourceKey, targets)
         IN  AdjacencyLoop(AddTargets([adj EXCEPT !.forward = fwd],
                                      sourceKey, targets, notes),
                           i + 1, notes)

buildAdjacency(notes) == AdjacencyLoop(EmptyAdj, 1, notes)

\* A variant that builds the adjacency while it reads: a target counts as
\* missing when no file read so far has its key.
RECURSIVE EagerLoop(_, _, _)
EagerLoop(files, notes, adj) ==
    IF files = <<>>
    THEN [vaultPath |-> VaultPath, notes |-> notes, forward |-> adj.forward,
          backward |-> adj.backward, missing |-> adj.missing]
    ELSE LET f == Head(files)
         IN  IF f.readable
             THEN LET note == readNote(f)
                      key == normalize(note.name)
                      read == MapSet(notes, key, note)
                      targets == NewSet([j \in DOMAIN note.wikilinks |->
                                             normalize(note.wikilinks[j])])
                      fwd == MapSet(adj.forward, key, targets)
                  IN  EagerLoop(Tail(files), read,
                                AddTargets([adj EXCEPT !.forward = fwd],
                                           key, targets, read))
             ELSE EagerLoop(Tail(files), notes, adj)

buildGraphEager(files) == EagerLoop(files, EmptyMap, EmptyAdj)

buildGraph(files) ==
    LET notes == ReadAll(files, EmptyMap)
        adj == buildAdjacency(notes)
    IN  [vaultPath |-> VaultPath, notes |-> notes, forward |-> adj.forward,
         backward |-> adj.backward, missing |-> adj.missing]

-----------------------------------------------------------------------------
(* resolve and fuzzyResolve. *)

\* Mutant of FuzzyScan: the last matching note wins.
RECURSIVE FuzzyScanLast(_, _, _)
FuzzyScanLast(target, i, notes) ==
    IF i > MapSize(notes) THEN Null
    ELSE LET later == FuzzyScanLast(target, i + 1, notes)
         IN  IF later # Null THEN later
             ELSE IF normalizeFuzzy(notes.vals[i].name) = target THEN notes.vals[i]
             ELSE Null

RECURSIVE FuzzyScan(_, _, _)
FuzzyScan(target, i, notes) ==
    IF i > MapSize(notes) THEN Null
    ELSE IF normalizeFuzzy(notes.vals[i].name) = target THEN notes.vals[i]
    ELSE FuzzyScan(target, i + 1, notes)

fuzzyResolve(name, st) == FuzzyScan(normalizeFuzzy(name), 1, st.notes)

resolve(name, st) ==
    LET key == normalize(name)
    IN  IF MapHas(st.notes, key) THEN MapGet(st.notes, key)
        ELSE fuzzyResolve(name, st)

-----------------------------------------------------------------------------
(* String comparison and sorting.  localeCompare is the three-level        *)
(* collation of the root locale: base letters first, then accents, then    *)
(* case, with white space and punctuation ordered before digits and        *)
(* letters.  Array.prototype.sort is stable.                               *)

Primary(c) ==
    CASE c = " " -> 1
      [] c = "_" -> 2
      [] c = "-" -> 3
      [] c = "1" -> 4
      [] c = "2" -> 5
      [] c = "3" -> 6
      [] c = "4" -> 7
      [] c \in {"a", "A", "aacute", "Aacute"} -> 8
      [] c \in {"b", "B"} -> 9
      [] OTHER -> 10

Secondary(c) == IF c \in {"aacute", "Aacute"} THEN 1 ELSE 0

Tertiary(c) == IF c \in {"A", "B", "Aacute"} THEN 1 ELSE 0

RECURSIVE LexCompare(_, _)
LexCompare(x, y) ==
    IF x = <<>> THEN (IF y = <<>> THEN 0 ELSE -1)
    ELSE IF y = <<>> THEN 1
    ELSE IF Head(x) < Head(y) THEN -1
    ELSE IF Head(x) > Head(y) THEN 1
    ELSE LexCompare(Tail(x), Tail(y))

localeCompare(a, b) ==
    LET p == LexCompare([i \in DOMAIN a |-> Primary(a[i])],
                        [i \in DOMAIN b |-> Primary(b[i])])
        s == LexCompare([i \in DOMAIN a |-> Secondary(a[i])],
                        [i \in DOMAIN b |-> Secondary(b[i])])
        t == LexCompare([i \in DOMAIN a |-> Tertiary(a[i])],
                        [i \in DOMAIN b |-> Tertiary(b[i])])
    IN  IF p # 0 THEN p ELSE IF s # 0 THEN s ELSE t

\* The comparators the code sorts with; each is negative, zero or positive.
ByName(a, b) == localeCompare(a.name, b.name)

\* A variant that orders by count ascending.
ByCountAsc(a, b) == a.count - b.count

ByCountDesc(a, b) == b.count - a.count

\* A variant that orders by depth alone.
ByDepthOnly(a, b) == a.depth - b.depth

ByDepthThenName(a, b) ==
    IF a.depth - b.depth # 0 THEN a.depth - b.depth
    ELSE localeCompare(a.name, b.name)

Compare(kind, a, b) ==
    CASE kind = "name" -> ByName(a, b)
      [] kind = "count" -> ByCountDesc(a, b)
      [] kind = "depth" -> ByDepthThenName(a, b)

RECURSIVE InsertSorted(_, _, _)
InsertSorted(kind, sorted, x) ==
    IF sorted = <<>> THEN <<x>>
    ELSE IF Compare(kind, Head(sorted), x) <= 0
         THEN <<Head(sorted)>> \o InsertSorted(kind, Tail(sorted), x)
         ELSE <<x>> \o sorted

RECURSIVE Sort(_, _)
Sort(kind, xs) ==
    IF xs = <<>> THEN <<>>
    ELSE InsertSorted(kind, Sort(kind, SubSeq(xs, 1, Len(xs) - 1)), xs[Len(xs)])

-----------------------------------------------------------------------------
(* Array.prototype.slice: a negative index counts from the end. *)

SliceIndex(i, len) ==
    IF i < 0 THEN (IF len + i < 0 THEN 0 ELSE len + i)
    ELSE (IF i > len THEN len ELSE i)

slice(xs, start, end) ==
    LET k == SliceIndex(start, Len(xs))
        f == SliceIndex(end, Len(xs))
    IN  IF k >= f THEN <<>> ELSE SubSeq(xs, k + 1, f)

\* x ?? d
OrDefault(x, d) == IF x = Null THEN d ELSE x.some

DefaultLimit == 50

\* The page of a list that orphans, missingNotes and paginate return.
Page(list, opts) ==
    LET limit == OrDefault(opts.limit, DefaultLimit)
        offset == OrDefault(opts.offset, 0)
    IN  [total |-> Len(list), offset |-> offset, limit |-> limit,
         results |-> slice(list, offset, offset + limit)]

paginate(items, opts) == Page(items, opts)

-----------------------------------------------------------------------------
(* The tag list of a note: frontmatter tags, then the inline tags not      *)
(* already among them.                                                     *)

allTags(note) == NewSet(note.frontmatterTags \o note.inlineTags)

-----------------------------------------------------------------------------
(* backlinks, orphans and missingNotes. *)

backlinks(noteName, st) ==
    LET key == normalize(noteName)
    IN  IF ~MapHas(st.backward, key) THEN <<>>
        ELSE LET refs == MapGet(st.backward, key)
             IN  [i \in DOMAIN refs |->
                    IF MapHas(st.notes, refs[i])
                    THEN [name |-> MapGet(st.notes, refs[i]).name,
                          path |-> Some(MapGet(st.notes, refs[i]).path)]
                    ELSE [name |-> refs[i], path |-> Null]]

\* A variant that does not count the link of a note to itself.
IsOrphanButForSelf(key, st) ==
    \/ ~MapHas(st.backward, key)
    \/ Range(MapGet(st.backward, key)) \subseteq {key}

IsOrphan(key, st) ==
    ~MapHas(st.backward, key) \/ Len(MapGet(st.backward, key)) = 0

RECURSIVE OrphanScan(_, _)
OrphanScan(i, st) ==
    IF i > MapSize(st.notes) THEN <<>>
    ELSE LET note == st.notes.vals[i]
         IN  (IF IsOrphan(st.notes.keys[i], st)
              THEN <<[name |-> note.name, path |-> note.path,
                      tags |-> allTags(note)]>>
              ELSE <<>>)
             \o OrphanScan(i + 1, st)

orphanList(st) == Sort("name", OrphanScan(1, st))

orphans(st, opts) == Page(orphanList(st), opts)

missingList(st) ==
    Sort("count", [i \in DOMAIN st.missing.keys |->
                      [name |-> st.missing.keys[i],
                       referenced_by |-> st.missing.vals[i],
                       count |-> Len(st.missing.vals[i])]])

missingNotes(st, opts) == Page(missingList(st), opts)

-----------------------------------------------------------------------------
(* traverse: breadth-first walk from the start key. *)

NotFoundError(noteName) == <<"Note '">> \o noteName \o <<"' not found">>

\* A variant that follows the first target only.
ExpandFirst(targets, depth, queue, missingFound, st) ==
    IF targets = <<>> THEN [queue |-> queue, missingFound |-> missingFound]
    ELSE IF MapHas(st.notes, Head(targets))
         THEN [queue |-> Append(queue, <<Head(targets), depth + 1>>),
               missingFound |-> missingFound]
         ELSE [queue |-> queue,
               missingFound |-> SetAdd(missingFound, Head(targets))]

\* A variant that puts the targets at the front of the queue.
RECURSIVE ExpandFront(_, _, _, _, _)
ExpandFront(targets, depth, queue, missingFound, st) ==
    IF targets = <<>> THEN [queue |-> queue, missingFound |-> missingFound]
    ELSE LET rest == ExpandFront(Tail(targets), depth, queue, missingFound, st)
         IN  IF MapHas(st.notes, Head(targets))
             THEN [queue |-> <<<<Head(targets), depth + 1>>>> \o rest.queue,
                   missingFound |-> rest.missingFound]
             ELSE [queue |-> rest.queue,
                   missingFound |-> SetAdd(rest.missingFound, Head(targets))]

RECURSIVE Expand(_, _, _, _, _)
Expand(targets, depth, queue, missingFound, st) ==
    IF targets = <<>> THEN [queue |-> queue, missingFound |-> missingFound]
    ELSE IF MapHas(st.notes, Head(targets))
         THEN Expand(Tail(targets), depth,
                     Append(queue, <<Head(targets), depth + 1>>), missingFound, st)
         ELSE Expand(Tail(targets), depth, queue,
                     SetAdd(missingFound, Head(targets)), st)

\* A variant that also expands the nodes at depth maxDepth.
RECURSIVE BfsThrough(_, _, _, _, _)
BfsThrough(queue, visited, missingFound, maxDepth, st) ==
    IF queue = <<>> THEN [visited |-> visited, missingFound |-> missingFound]
    ELSE LET key == Head(queue)[1]
             depth == Head(queue)[2]
         IN  IF MapHas(visited, key)
             THEN BfsThrough(Tail(queue), visited, missingFound, maxDepth, st)
             ELSE IF depth <= maxDepth /\ MapHas(st.forward, key)
                  THEN LET e == Expand(MapGet(st.forward, key), depth,
                                       Tail(queue), missingFound, st)
                       IN  BfsThrough(e.queue, MapSet(visited, key, depth),
                                      e.missingFound, maxDepth, st)
                  ELSE BfsThrough(Tail(queue), MapSet(visited, key, depth),
                                  missingFound, maxDepth, st)

RECURSIVE Bfs(_, _, _, _, _)
Bfs(queue, visited, missingFound, maxDepth, st) ==
    IF queue = <<>> THEN [visited |-> visited, missingFound |-> missingFound]
    ELSE LET key == Head(queue)[1]
             depth == Head(queue)[2]
         IN  IF MapHas(visited, key)
             THEN Bfs(Tail(queue), visited, missingFound, maxDepth, st)
             ELSE IF depth < maxDepth /\ MapHas(st.forward, key)
                  THEN LET e == Expand(MapGet(st.forward, key), depth,
                                       Tail(queue), missingFound, st)
                       IN  Bfs(e.queue, MapSet(visited, key, depth),
                               e.missingFound, maxDepth, st)
                  ELSE Bfs(Tail(queue), MapSet(visited, key, depth),
                           missingFound, maxDepth, st)

\* The value traverse returns once the queue is empty.
Report(startNote, maxDepth, walk, st) ==
    LET visited == walk.visited
    IN  IF \E i \in DOMAIN visited.keys : ~MapHas(st.notes, visited.keys[i])
        THEN [threw |-> "TypeError"]   \* state.notes.get(key)! is undefined
        ELSE [root |-> startNote.name,
              depth |-> maxDepth,
              notes |-> Sort("depth",
                  [i \in DOMAIN visited.keys |->
                      LET note == MapGet(st.notes, visited.keys[i])
                      IN  [name |-> note.name, path |-> note.path,
                           depth |-> visited.vals[i], tags |-> allTags(note)]]),
              missing |-> [i \in DOMAIN walk.missingFound |->
                  [name |-> walk.missingFound[i],
                   referenced_by |->
                       IF MapHas(st.missing, walk.missingFound[i])
                       THEN MapGet(st.missing, walk.missingFound[i])
                       ELSE <<>>]]]

TraverseFrom(startKey, startNote, maxDepth, st) ==
    Report(startNote, maxDepth,
           Bfs(<<<<startKey, 0>>>>, EmptyMap, <<>>, maxDepth, st), st)

traversePartial(noteName, maxDepth, st) ==
    LET startNote == resolve(noteName, st)
    IN  IF startNote = Null
        THEN [error |-> NotFoundError(noteName),
              notes |-> <<[name |-> noteName, path |-> Null, depth |-> 0,
                           tags |-> <<>>]>>,
              missing |-> <<>>]
        ELSE TraverseFrom(normalize(noteName), startNote, maxDepth, st)

traverse(noteName, maxDepth, st) ==
    LET startNote == resolve(noteName, st)
    IN  IF startNote = Null
        THEN [error |-> NotFoundError(noteName), notes |-> <<>>, missing |-> <<>>]
        ELSE TraverseFrom(normalize(noteName), startNote, maxDepth, st)

-----------------------------------------------------------------------------
(* stats. *)

\* A variant that counts the links to missing targets, one per source.
statsByOccurrence(st) ==
    LET total == MapSize(st.notes)
        tagged == Cardinality({i \in DOMAIN st.notes.vals :
                                  Len(allTags(st.notes.vals[i])) > 0})
        orphanCount == Cardinality({i \in DOMAIN st.notes.keys :
                                       IsOrphan(st.notes.keys[i], st)})
    IN  [total_notes |-> total, tagged |-> tagged, untagged |-> total - tagged,
         orphans |-> orphanCount,
         missing_links |-> Len(Flatten(st.missing.vals))]

stats(st) ==
    LET total == MapSize(st.notes)
        tagged == Cardinality({i \in DOMAIN st.notes.vals :
                                  Len(allTags(st.notes.vals[i])) > 0})
        orphanCount == Cardinality({i \in DOMAIN st.notes.keys :
                                       IsOrphan(st.notes.keys[i], st)})
    IN  [total_notes |-> total, tagged |-> tagged, untagged |-> total - tagged,
         orphans |-> orphanCount, missing_links |-> MapSize(st.missing)]

-----------------------------------------------------------------------------
(* search: case-insensitive substring search, line by line. *)

RECURSIVE split(_)
split(content) ==
    IF \A i \in DOMAIN content : content[i] # "\n" THEN <<content>>
    ELSE LET n == CHOOSE i \in DOMAIN content :
                      /\ content[i] = "\n"
                      /\ \A j \in 1..(i - 1) : content[j] # "\n"
         IN  <<SubSeq(content, 1, n - 1)>>
             \o split(SubSeq(content, n + 1, Len(content)))

startsWith(s, prefix) ==
    Len(prefix) <= Len(s) /\ SubSeq(s, 1, Len(prefix)) = prefix

includes(s, q) ==
    \E i \in 0..(Len(s) - Len(q)) : SubSeq(s, i + 1, i + Len(q)) = q

\* Every matching line of the vault, in the order the two loops meet them.
searchMatches(q, st) ==
    Flatten([n \in DOMAIN st.notes.vals |->
        LET note == st.notes.vals[n]
            lines == split(note.content)
        IN  Flatten([i \in DOMAIN lines |->
                IF includes(toLowerCase(lines[i]), q)
                THEN <<[file |-> note.name, path |-> note.path, line |-> i,
                        text |-> trim(lines[i])]>>
                ELSE <<>>])])

RECURSIVE Collect(_, _, _)
Collect(matches, needed, acc) ==
    IF matches = <<>> THEN acc
    ELSE Collect(Tail(matches), needed,
                 [total |-> acc.total + 1,
                  collected |-> IF Len(acc.collected) < needed
                                THEN Append(acc.collected, Head(matches))
                                ELSE acc.collected])

\* A variant that does not lower-case the query.
searchQueryAsTyped(query, st, opts) ==
    LET limit == OrDefault(opts.limit, DefaultLimit)
        offset == OrDefault(opts.offset, 0)
        needed == offset + limit
        got == Collect(searchMatches(query, st), needed,
                       [total |-> 0, collected |-> <<>>])
    IN  [total |-> got.total, offset |-> offset, limit |-> limit,
         results |-> slice(got.collected, offset, offset + limit)]

search(query, st, opts) ==
    LET limit == OrDefault(opts.limit, DefaultLimit)
        offset == OrDefault(opts.offset, 0)
        q == toLowerCase(query)
        needed == offset + limit
        got == Collect(searchMatches(q, st), needed,
                       [total |-> 0, collected |-> <<>>])
    IN  [total |-> got.total, offset |-> offset, limit |-> limit,
         results |-> slice(got.collected, offset, offset + limit)]

-----------------------------------------------------------------------------
(* The filter pipeline.  A value that may be undefined or null is either   *)
(* Null or Some(v).  A pattern is written in the part of the RegExp syntax *)
(* the model covers: literal characters, an optional leading "^", and "["  *)
(* opening a character class that is never closed, which is a SyntaxError. *)
(* A date string either names an instant in milliseconds ([ms |-> n]) or   *)
(* is text that new Date() cannot parse ([text |-> chars]).                *)

NaN == [nan |-> TRUE]

NoOptions ==
    [folder |-> Null, excludeFolders |-> Null, excludePattern |-> Null,
     modifiedAfter |-> Null, modifiedBefore |-> Null,
     tags |-> Null, excludeTags |-> Null]

\* !x for a string or an array option: undefined, or of length zero.
Falsy(x) == x = Null \/ x.some = <<>>

\* !x for a date string.
FalsyDate(x) == x = Null \/ x.some = [text |-> <<>>]

RegExpThrows(pattern) == "[" \in Range(pattern)

RegExpTest(re, s) ==
    LET text == toLowerCase(s)
    IN  IF re.source # <<>> /\ Head(re.source) = "^"
        THEN startsWith(text, toLowerCase(Tail(re.source)))
        ELSE includes(text, toLowerCase(re.source))

compileExcludePattern(pattern) ==
    IF Falsy(pattern) THEN Null
    ELSE IF RegExpThrows(pattern.some) THEN Null
    ELSE [source |-> pattern.some]

stripHash(t) == IF t # <<>> /\ Head(t) = "#" THEN Tail(t) ELSE t

TagTerms(tags) == {toLowerCase(stripHash(tags[i])) : i \in DOMAIN tags}

normalizeTagSet(tags) ==
    IF Falsy(tags) THEN Null ELSE [set |-> TagTerms(tags.some)]

NewDate(text) == IF "ms" \in DOMAIN text THEN [time |-> text.ms] ELSE NaN

compileFilter(opts) ==
    [folder |-> opts.folder,
     excludeFolders |-> opts.excludeFolders,
     excludeRe |-> compileExcludePattern(opts.excludePattern),
     modifiedAfter |-> IF FalsyDate(opts.modifiedAfter) THEN Null
                       ELSE NewDate(opts.modifiedAfter.some),
     modifiedBefore |-> IF FalsyDate(opts.modifiedBefore) THEN Null
                        ELSE NewDate(opts.modifiedBefore.some),
     tagSet |-> normalizeTagSet(opts.tags),
     excludeTagSet |-> normalizeTagSet(opts.excludeTags)]

\* A variant that leaves the path as it is.
keepTrailing(path) == path

ensureTrailingSlash(path) ==
    IF path # <<>> /\ path[Len(path)] = "/" THEN path ELSE Append(path, "/")

RelPath(note, vaultPath) ==
    SubSeq(note.path, Len(vaultPath) + 2, Len(note.path))

isNoteInFolder(note, vaultPath, folderPrefix) ==
    startsWith(RelPath(note, vaultPath), ensureTrailingSlash(folderPrefix))

isNoteInExcludedFolder(note, vaultPath, excludeFolders) ==
    \E i \in DOMAIN excludeFolders :
        startsWith(RelPath(note, vaultPath), ensureTrailingSlash(excludeFolders[i]))

passesExcludePattern(noteName, re) ==
    IF re = Null THEN TRUE ELSE ~RegExpTest(re, noteName)

\* A variant that looks at the frontmatter tags only.
hasMatchingFrontmatterTag(note, tagSet) ==
    \E i \in DOMAIN note.frontmatterTags :
        toLowerCase(note.frontmatterTags[i]) \in tagSet

hasMatchingTag(note, tagSet) ==
    \/ \E i \in DOMAIN note.frontmatterTags :
           toLowerCase(note.frontmatterTags[i]) \in tagSet
    \/ \E i \in DOMAIN note.inlineTags :
           toLowerCase(note.inlineTags[i]) \in tagSet

passesTagFilter(note, tags, excludeTags) ==
    /\ ~Falsy(tags) => hasMatchingTag(note, TagTerms(tags.some))
    /\ ~Falsy(excludeTags) => ~hasMatchingTag(note, TagTerms(excludeTags.some))

\* note.mtime < date; a comparison with an invalid Date is false.
Before(mtime, date) == date # NaN /\ mtime < date.time

\* note.mtime > date
After(mtime, date) == date # NaN /\ mtime > date.time

passesCompiledFilter(note, vaultPath, cf) ==
    /\ ~(~Falsy(cf.folder) /\ ~isNoteInFolder(note, vaultPath, cf.folder.some))
    /\ ~(cf.excludeFolders # Null
         /\ isNoteInExcludedFolder(note, vaultPath, cf.excludeFolders.some))
    /\ passesExcludePattern(note.name, cf.excludeRe)
    /\ ~(cf.modifiedAfter # Null /\ Before(note.mtime, cf.modifiedAfter))
    /\ ~(cf.modifiedBefore # Null /\ After(note.mtime, cf.modifiedBefore))
    /\ ~(cf.tagSet # Null /\ ~hasMatchingTag(note, cf.tagSet.set))
    /\ ~(cf.excludeTagSet # Null /\ hasMatchingTag(note, cf.excludeTagSet.set))

RECURSIVE FilterLoop(_, _, _, _, _)
FilterLoop(i, notes, vaultPath, cf, filtered) ==
    IF i > MapSize(notes) THEN filtered
    ELSE FilterLoop(i + 1, notes, vaultPath, cf,
             IF passesCompiledFilter(notes.vals[i], vaultPath, cf)
             THEN MapSet(filtered, notes.keys[i], notes.vals[i])
             ELSE filtered)

filterNotes(notes, vaultPath, opts) ==
    FilterLoop(1, notes, vaultPath, compileFilter(opts), EmptyMap)

-----------------------------------------------------------------------------
(* The vaults the model starts from.  A file is what readNote finds at a   *)
(* path; the files of a vault are in scanVault's order, which the numbered *)
(* folders /v/1, /v/2, ... give them.                                      *)

Digit(i) == <<"1", "2", "3", "4", "5", "6", "7", "8", "9">>[i]

PathOf(i, name) == VaultPath \o <<"/", Digit(i), "/">> \o name \o <<".md">>

File(i, name, links, content) ==
    [path |-> PathOf(i, name), readable |-> TRUE, content |-> content,
     wikilinks |-> links, frontmatterTags |-> <<>>, inlineTags |-> <<>>,
     mtime |-> i]

\* Names with pairwise different keys, and names of which the first two
\* share the key "a".
DistinctNames == << <<"A">>, <<"b">>, <<"a", "_", "b">>, <<"b", "a">>, <<"a", "a">> >>

CollidingNames == << <<"A">>, <<"a">>, <<"b">>, <<"B">>, <<"a", "a">> >>

LinkTargets == { <<"a">>, <<"B">>, <<"a", "_", "b">>, <<"x">> }

RECURSIVE LinksOf(_, _)
LinksOf(i, edges) ==
    IF edges = <<>> THEN <<>>
    ELSE (IF Head(edges)[1] = i THEN <<Head(edges)[2]>> ELSE <<>>)
         \o LinksOf(i, Tail(edges))

\* The link occurrences of a vault of n files, grouped by file: at most
\* MaxLinks in the whole vault.
EdgeLists(n) ==
    {e \in SeqsUpTo((1..n) \X LinkTargets, MaxLinks) :
        \A i \in 1..(Len(e) - 1) : e[i][1] <= e[i + 1][1]}

\* A vault of p[1] files whose link occurrences are the edge list p[2].
GraphVaults(names) ==
    {[i \in 1..p[1] |-> File(i, names[i], LinksOf(i, p[2]), <<>>)] :
        p \in {q \in (1..MaxNotes) \X EdgeLists(MaxNotes) :
                  \A j \in DOMAIN q[2] : q[2][j][1] <= q[1]}}

\* The same vaults with one file that readNote cannot read.
WithUnreadable(vaults) ==
    {[p[1] EXCEPT ![p[2]].readable = FALSE] :
        p \in {q \in vaults \X (1..MaxNotes) : q[2] \in DOMAIN q[1]}}

NoResult == [op |-> "none"]

EmptyState ==
    [vaultPath |-> VaultPath, notes |-> EmptyMap, forward |-> EmptyMap,
     backward |-> EmptyMap, missing |-> EmptyMap]

NoPending == [pending |-> "none"]

InitWith(vaults) ==
    /\ vault \in vaults
    /\ pc = "start"
    /\ state = EmptyState
    /\ result = NoResult
    /\ pending = NoPending

-----------------------------------------------------------------------------
(* The operations. *)

BuildGraph ==
    /\ pc = "start"
    /\ state' = buildGraph(vault)
    /\ pc' = "serve"
    /\ UNCHANGED <<vault, result, pending>>

\* A variant in which a call empties the missing map it has read.
AnswerConsuming(op, args, value) ==
    /\ pc = "serve"
    /\ result = NoResult
    /\ result' = [op |-> op, args |-> args, value |-> value]
    /\ state' = [state EXCEPT !.missing = EmptyMap]
    /\ UNCHANGED <<vault, pc, pending>>

\* A tool callback runs to completion and returns its value.
Answer(op, args, value) ==
    /\ pc = "serve"
    /\ result = NoResult
    /\ result' = [op |-> op, args |-> args, value |-> value]
    /\ UNCHANGED <<vault, pc, state, pending>>

\* The returned value goes out as the reply; the server takes the next call.
Respond ==
    /\ pc = "serve"
    /\ result # NoResult
    /\ result' = NoResult
    /\ UNCHANGED <<vault, pc, state, pending>>

DoStats == Answer("stats", <<>>, stats(state))

-----------------------------------------------------------------------------
(* Start-up: buildGraph over a vault, then vault_stats. *)

\* Vaults with pairwise different keys, vaults where two files share a key,
\* and the latter with one unreadable file.
Init ==
    \/ InitWith(GraphVaults(DistinctNames))
    \/ InitWith(GraphVaults(CollidingNames))
    \/ InitWith(WithUnreadable(GraphVaults(CollidingNames)))

Next == BuildGraph \/ DoStats \/ Respond

Spec == Init /\ [][Next]_vars

-----------------------------------------------------------------------------
(* Views of the built index used to state its properties. *)

Built == pc = "serve"

Keys(m) == Range(m.keys)

\* The members of the set stored under k, none when k is no key.
Members(m, k) == IF MapHas(m, k) THEN Range(MapGet(m, k)) ELSE {}

AllTargets(st) == UNION {Members(st.forward, s) : s \in Keys(st.forward)}

AllKeys(st) ==
    Keys(st.notes) \cup Keys(st.forward) \cup Keys(st.backward)
        \cup Keys(st.missing) \cup AllTargets(st)

\* C1: after buildGraph, forward and backward are exact inverses: for all
\* keys s and t, t is in forward[s] if and only if s is in backward[t].
C1_ForwardBackwardInverse ==
    Built =>
        \A s \in AllKeys(state) \cup UNION {Members(state.backward, t) :
                                              t \in Keys(state.backward)} :
            \A t \in AllKeys(state) :
                t \in Members(state.forward, s) <=> s \in Members(state.backward, t)

\* Witness of C1: an index with a link between two notes, a link to a
\* missing note, and two readable files that share a key.
C1_Witness ==
    /\ Built
    /\ \E i, j \in DOMAIN vault :
           /\ i < j /\ vault[i].readable /\ vault[j].readable
           /\ normalize(readNote(vault[i]).name) = normalize(readNote(vault[j]).name)
    /\ \E s \in Keys(state.forward) :
           /\ Members(state.forward, s) \cap Keys(state.notes) # {}
           /\ Members(state.forward, s) \ Keys(state.notes) # {}

\* C2: after buildGraph, a key is a key of missing if and only if it is in
\* some forward set and is no key of notes; so missing and notes share no
\* key, and every key of a forward set is in exactly one of the two.
C2_MissingComplete ==
    Built =>
        /\ \A k \in AllKeys(state) :
               k \in Keys(state.missing)
                   <=> (k \in AllTargets(state) /\ k \notin Keys(state.notes))
        /\ Keys(state.missing) \cap Keys(state.notes) = {}
        /\ \A t \in AllTargets(state) :
               (t \in Keys(state.notes)) # (t \in Keys(state.missing))

\* Witness of C2: the index of a vault with an unreadable file has a link
\* to a note that exists and a link to one that does not.
C2_Witness ==
    /\ Built
    /\ Keys(state.missing) # {}
    /\ AllTargets(state) \cap Keys(state.notes) # {}
    /\ \E i \in DOMAIN vault : ~vault[i].readable

-----------------------------------------------------------------------------
(* Name resolution: resolve_wikilink over vaults whose file names differ   *)
(* in case, dashes, underscores and accents.                               *)

\* The names asked for: the file names in other spellings.
QueryNames ==
    { <<>>, <<"a">>, <<"A">>, <<" ", "a">>, <<"A", " ">>, <<" ", "a", " ">>,
      <<"aacute">>, <<"Aacute">>,
      <<"a", "_">>, <<"a", "-">>, <<"A", "-">>, <<"A", "_">>, <<" ", "a", "-">>,
      <<"_", "a">>, <<"-", "a">>, <<"-", "A">>, <<"-">>, <<"b">> }

ResolveNames ==
    { <<"a", "_">>, <<"a", "-">>, <<"a">>, <<"A">>, <<"aacute">>, <<"_", "A">> }

ResolveVaults ==
    {[i \in 1..p[1] |-> File(i, p[2][i], <<>>, <<>>)] :
        p \in (1..MaxNotes) \X [1..MaxNotes -> ResolveNames]}

InitResolve == InitWith(ResolveVaults)

DoResolve == \E name \in QueryNames : Answer("resolve", <<name>>, resolve(name, state))

NextResolve == BuildGraph \/ DoResolve \/ Respond

SpecResolve == InitResolve /\ [][NextResolve]_vars

Resolved == result.op = "resolve"

CasePairs == {<<"a", "A">>, <<"aacute", "Aacute">>, <<"b", "B">>}

SameLetter(c, d) == c = d \/ <<c, d>> \in CasePairs \/ <<d, c>> \in CasePairs

IsBlank(s) == \A i \in DOMAIN s : s[i] = " "

\* x and y differ only in letter case and in surrounding white space.
SameUpToCaseAndSpace(x, y) ==
    \E a \in 0..Len(x), c \in 0..Len(y) :
        \E b \in a..Len(x), d \in c..Len(y) :
            /\ IsBlank(SubSeq(x, 1, a)) /\ IsBlank(SubSeq(x, b + 1, Len(x)))
            /\ IsBlank(SubSeq(y, 1, c)) /\ IsBlank(SubSeq(y, d + 1, Len(y)))
            /\ b - a = d - c
            /\ \A k \in 1..(b - a) : SameLetter(x[a + k], y[c + k])

\* C3: resolve is idempotent and case-insensitive: on a fixed index, the
\* note (or not-found) a call returned is what resolve gives for the same
\* name and for every name that differs from it only in letter case and
\* surrounding white space.
C3_ResolveCaseInsensitive ==
    Resolved =>
        \A y \in QueryNames :
            SameUpToCaseAndSpace(result.args[1], y)
                => resolve(y, state) = result.value

\* Witness of C3: a name with a capital letter and a space around it has
\* resolved to a note that another spelling in the pool also names.
C3_Witness ==
    /\ Resolved
    /\ result.value # Null
    /\ "A" \in Range(result.args[1])
    /\ " " \in Range(result.args[1])
    /\ \E y \in QueryNames :
           y # result.args[1] /\ SameUpToCaseAndSpace(result.args[1], y)

\* The name with every underscore written as a dash.
Dashed(name) == [i \in DOMAIN name |-> IF name[i] = "_" THEN "-" ELSE name[i]]

Notes(st) == Range(st.notes.vals)

\* The positions, in the insertion order of notes, of the documents whose
\* fuzzy key is that of the name.
FuzzyMatches(name, st) ==
    {i \in DOMAIN st.notes.vals :
        normalizeFuzzy(st.notes.vals[i].name) = normalizeFuzzy(name)}

Min(S) == CHOOSE x \in S : \A y \in S : x <= y

\* C4 as claimed: for a document whose name uses underscores, resolve of the
\* name written with dashes returns that document.
C4_Claimed ==
    Resolved =>
        \A d \in Notes(state) :
            ("_" \in Range(d.name) /\ result.args[1] = Dashed(d.name))
                => result.value = d

\* C4 as amended: resolve of the dashed name returns a document with the
\* same fuzzy key as the underscored one, and it returns the underscored
\* document itself when no document is stored under the key of the dashed
\* name and no earlier document has that fuzzy key.
C4_DashedResolves ==
    Resolved =>
        \A i \in DOMAIN state.notes.vals :
            LET d == state.notes.vals[i]
                q == result.args[1]
            IN  ("_" \in Range(d.name) /\ q = Dashed(d.name)) =>
                    /\ result.value # Null
                    /\ normalizeFuzzy(result.value.name) = normalizeFuzzy(d.name)
                    /\ (/\ ~MapHas(state.notes, normalize(q))
                        /\ i = Min(FuzzyMatches(q, state)))
                           => result.value = d

\* Witness of C4: the dashed name is no key of the index and resolves to
\* the underscored document.
C4_Witness ==
    /\ Resolved
    /\ ~MapHas(state.notes, normalize(result.args[1]))
    /\ \E d \in Notes(state) :
           /\ "_" \in Range(d.name)
           /\ result.args[1] = Dashed(d.name)
           /\ result.value = d

\* C5: resolve returns the document stored under the normalized key of the
\* name when there is one; on an exact miss, the first document in the
\* insertion order of notes whose fuzzy key is that of the name; and
\* not-found exactly when no document has that fuzzy key.
C5_ExactThenFirstFuzzy ==
    Resolved =>
        LET q == result.args[1]
            key == normalize(q)
            M == FuzzyMatches(q, state)
        IN  /\ key \in Keys(state.notes) => result.value = MapGet(state.notes, key)
            /\ (key \notin Keys(state.notes) /\ M # {})
                   => result.value = state.notes.vals[Min(M)]
            /\ result.value = Null <=> M = {}

\* Witness of C5: an exact miss with two documents of the fuzzy key, the
\* first of which is returned.
C5_Witness ==
    /\ Resolved
    /\ normalize(result.args[1]) \notin Keys(state.notes)
    /\ Cardinality(FuzzyMatches(result.args[1], state)) >= 2
    /\ result.value = state.notes.vals[Min(FuzzyMatches(result.args[1], state))]

-----------------------------------------------------------------------------
(* Paged list operations: find_orphans, find_missing_notes, search and     *)
(* paginate, called with the limit and offset the tool schemas let through *)
(* (any integer, or none).                                                 *)

\* What one file of a paging vault holds: its wikilinks and its content.
PageFiles ==
    { << <<>>, <<>> >>,
      << << <<"x">> >>, <<>> >>,
      << << <<"y">>, <<"b">> >>, <<>> >>,
      << <<>>, <<"a">> >>,
      << <<>>, <<"a", "\n", "A">> >> }

PageVaults ==
    {[i \in 1..p[1] |->
         File(i, DistinctNames[i], p[2][i][1], p[2][i][2])] :
        p \in (1..MaxNotes) \X [1..MaxNotes -> PageFiles]}

\* z.number().int().optional(): any integer, or absent.
PageNumbers == {Null} \cup {Some(n) : n \in -1..MaxPage}

PageOpts == [limit : PageNumbers, offset : PageNumbers]

SearchQueries == { <<"a">>, <<>> }

InitPage == InitWith(PageVaults)

DoOrphans ==
    \E opts \in PageOpts : Answer("orphans", <<opts>>, orphans(state, opts))

DoMissingNotes ==
    \E opts \in PageOpts :
        Answer("missingNotes", <<opts>>, missingNotes(state, opts))

DoSearch ==
    \E opts \in PageOpts, query \in SearchQueries :
        Answer("search", <<opts, query>>, search(query, state, opts))

DoPaginate ==
    \E opts \in PageOpts :
        Answer("paginate", <<opts, state.notes.keys>>,
               paginate(state.notes.keys, opts))

NextPage ==
    BuildGraph \/ DoOrphans \/ DoMissingNotes \/ DoSearch \/ DoPaginate
        \/ Respond

SpecPage == InitPage /\ [][NextPage]_vars

Paged == result.op \in {"orphans", "missingNotes", "search", "paginate"}

\* The whole list of which the answered call returned a page.
FullList ==
    CASE result.op = "orphans" -> orphanList(state)
      [] result.op = "missingNotes" -> missingList(state)
      [] result.op = "search" ->
             searchMatches(toLowerCase(result.args[2]), state)
      [] result.op = "paginate" -> result.args[2]

\* The elements of xs at the zero-based positions lo <= i < hi.
Interval(xs, lo, hi) ==
    SubSeq(xs, (IF lo < 0 THEN 0 ELSE lo) + 1,
               IF hi > Len(xs) THEN Len(xs) ELSE hi)

\* C6: every paged call returns at most limit results, which are the part
\* of the full list at positions [offset, offset + limit), and a total that
\* is the length of the full list.
C6_PaginationInvariant ==
    Paged =>
        LET v == result.value
        IN  /\ Len(v.results) <= v.limit
            /\ v.results = Interval(FullList, v.offset, v.offset + v.limit)
            /\ v.total = Len(FullList)

-----------------------------------------------------------------------------
(* traverse and find_backlinks, called with names that resolve exactly,    *)
(* only fuzzily, or not at all.                                            *)

TraverseNames ==
    { <<"a">>, <<"B">>, <<"a", "-", "b">>, <<"a", "_", "b">>, <<"x">> }

InitTraverse == InitWith(GraphVaults(DistinctNames))

DoTraverse ==
    \E noteName \in TraverseNames, maxDepth \in 0..MaxDepth :
        Answer("traverse", <<noteName, maxDepth>>,
               traverse(noteName, maxDepth, state))

DoBacklinks ==
    \E noteName \in TraverseNames :
        Answer("backlinks", <<noteName>>, backlinks(noteName, state))

NextTraverse == BuildGraph \/ DoTraverse \/ DoBacklinks \/ Respond

SpecTraverse == InitTraverse /\ [][NextTraverse]_vars

Traversed == result.op = "traverse"

\* The document the name of the answered call resolves to, or Null.
Root == resolve(result.args[1], state)

\* The paths of the returned nodes at a depth.
PathsAtDepth(v, d) ==
    IF "notes" \in DOMAIN v
    THEN {v.notes[i].path : i \in {j \in DOMAIN v.notes : v.notes[j].depth = d}}
    ELSE {}

\* C7: for a root that resolves, no returned node is deeper than maxDepth
\* and the root is returned at depth 0.
C7_TraverseDepthBound ==
    (Traversed /\ Root # Null) =>
        /\ "notes" \in DOMAIN result.value
        /\ \A i \in DOMAIN result.value.notes :
               result.value.notes[i].depth <= result.args[2]
        /\ Root.path \in PathsAtDepth(result.value, 0)

\* The name of the answered call matches a document, but no document is
\* stored under its exact key.
FuzzyOnly == Root # Null /\ ~MapHas(state.notes, normalize(result.args[1]))

\* The paths of the documents that the links of doc name.
ExistingTargets(doc) ==
    {MapGet(state.notes, normalize(doc.wikilinks[i])).path :
        i \in {j \in DOMAIN doc.wikilinks :
                  MapHas(state.notes, normalize(doc.wikilinks[j]))}}

\* The paths of the documents that hold a link naming doc.
Referrers(doc) ==
    {n.path : n \in {m \in Notes(state) :
        \E i \in DOMAIN m.wikilinks :
            normalize(m.wikilinks[i]) = normalize(doc.name)}}

\* C8: with a name that matches a document only fuzzily, traverse returns
\* without error the resolved document at depth 0 and its existing link
\* targets at depth 1, and backlinks returns the referrers of the resolved
\* document.
C8_FuzzyNamedOperations ==
    /\ (Traversed /\ FuzzyOnly) =>
           /\ "notes" \in DOMAIN result.value
           /\ "error" \notin DOMAIN result.value
           /\ PathsAtDepth(result.value, 0) = {Root.path}
           /\ result.args[2] >= 1 =>
                  PathsAtDepth(result.value, 1)
                      = ExistingTargets(Root) \ {Root.path}
    /\ (result.op = "backlinks" /\ FuzzyOnly) =>
           {result.value[i].path : i \in DOMAIN result.value}
               = {Some(path) : path \in Referrers(Root)}

-----------------------------------------------------------------------------
(* filterNotes over the index, with exclude patterns that compile and      *)
(* patterns that do not.                                                   *)

Patterns ==
    { Null, Some(<<>>), Some(<<"[">>), Some(<<"[", "a">>), Some(<<"^", "a">>),
      Some(<<"B">>) }

FilterOpts == {[NoOptions EXCEPT !.excludePattern = p] : p \in Patterns}

InitFilter == InitWith(PageVaults)

DoFilterNotes ==
    \E opts \in FilterOpts :
        Answer("filterNotes", <<opts>>,
               filterNotes(state.notes, state.vaultPath, opts))

NextFilter == BuildGraph \/ DoFilterNotes \/ Respond

SpecFilter == InitFilter /\ [][NextFilter]_vars

\* The answered call gave an exclude pattern that new RegExp rejects.
InvalidPattern ==
    /\ result.op = "filterNotes"
    /\ ~Falsy(result.args[1].excludePattern)
    /\ RegExpThrows(result.args[1].excludePattern.some)

\* C10: an exclude pattern that does not compile makes the filter match no
\* document.
C10_InvalidPatternMatchesNothing ==
    InvalidPattern => MapSize(result.value) = 0

-----------------------------------------------------------------------------
(* The tools that take a note name: resolve_wikilink, read_frontmatter,    *)
(* find_backlinks and traverse.  The parsed frontmatter of a note is       *)
(* represented by its tags.                                                *)

resolveWikilink(name, st) ==
    LET note == resolve(name, st)
    IN  IF note = Null THEN [error |-> NotFoundError(name)]
        ELSE [name |-> note.name, path |-> note.path, content |-> note.content,
              frontmatter |-> note.frontmatterTags, tags |-> allTags(note)]

readFrontmatter(noteName, st) ==
    LET note == resolve(noteName, st)
    IN  IF note = Null THEN [error |-> NotFoundError(noteName)]
        ELSE [name |-> note.name, path |-> note.path,
              frontmatter |-> note.frontmatterTags]

DoResolveWikilink ==
    \E name \in TraverseNames :
        Answer("resolve_wikilink", <<name>>, resolveWikilink(name, state))

DoReadFrontmatter ==
    \E noteName \in TraverseNames :
        Answer("read_frontmatter", <<noteName>>,
               readFrontmatter(noteName, state))

NextNames ==
    BuildGraph \/ DoResolveWikilink \/ DoReadFrontmatter \/ DoTraverse
        \/ DoBacklinks \/ Respond

SpecNames == InitTraverse /\ [][NextNames]_vars

NameOps == {"resolve_wikilink", "read_frontmatter", "traverse", "backlinks"}

\* backlinks returns an array, which has no fields; the other three return
\* an object.
CarriesError ==
    result.op # "backlinks" /\ "error" \in DOMAIN result.value

Raised == result.op # "backlinks" /\ "threw" \in DOMAIN result.value

\* C11: every operation that takes a note name answers a name that resolves
\* to no document with a value that has an error field, and does not throw.
C11_NotFoundIsErrorValue ==
    (result.op \in NameOps /\ Root = Null) => (CarriesError /\ ~Raised)

-----------------------------------------------------------------------------
(* find_orphans and find_missing_notes called without paging options over  *)
(* the start-up vaults: the page is then the whole list.                   *)

Unpaged == [limit |-> Null, offset |-> Null]

DoOrphansUnpaged == Answer("orphans", <<Unpaged>>, orphans(state, Unpaged))

DoMissingNotesUnpaged ==
    Answer("missingNotes", <<Unpaged>>, missingNotes(state, Unpaged))

NextLists == BuildGraph \/ DoOrphansUnpaged \/ DoMissingNotesUnpaged \/ Respond

SpecLists == Init /\ [][NextLists]_vars

\* Some document of the index holds a link that names the key.
LinkedTo(key) ==
    \E m \in Notes(state) :
        \E i \in DOMAIN m.wikilinks : normalize(m.wikilinks[i]) = key

Unlinked == {d \in Notes(state) : ~LinkedTo(normalize(d.name))}

\* C12: the unpaged result of orphans lists, once each and in ascending
\* order of name, exactly the documents that no document links to, a link
\* of a document to itself counting as a link.
C12_OrphansExact ==
    result.op = "orphans" =>
        LET r == result.value.results
        IN  /\ {r[i].path : i \in DOMAIN r} = {d.path : d \in Unlinked}
            /\ Len(r) = Cardinality(Unlinked)
            /\ result.value.total = Cardinality(Unlinked)
            /\ \A i \in DOMAIN r : \A j \in DOMAIN r :
                   i < j => localeCompare(r[i].name, r[j].name) <= 0

\* Witness of C12: two orphans are listed and a document whose only
\* referrer is itself is not.
C12_Witness ==
    /\ result.op = "orphans"
    /\ Len(result.value.results) >= 2
    /\ \E d \in Notes(state) :
           /\ MapHas(state.backward, normalize(d.name))
           /\ MapGet(state.backward, normalize(d.name)) = <<normalize(d.name)>>
           /\ \A i \in DOMAIN result.value.results :
                  result.value.results[i].path # d.path

\* The documents of the index that hold a link naming the key.
Sources(key) ==
    {m \in Notes(state) :
        \E i \in DOMAIN m.wikilinks : normalize(m.wikilinks[i]) = key}

\* The link targets of the index that are no key of notes.
AbsentTargets ==
    {k \in UNION {{normalize(m.wikilinks[i]) : i \in DOMAIN m.wikilinks} :
                     m \in Notes(state)} : ~MapHas(state.notes, k)}

\* C13: the unpaged result of missingNotes has one entry for each link
\* target that is no key of notes; the count of an entry is the number of
\* documents that link to the target, which is also the length of its
\* referenced_by; and the entries are in descending order of count.
C13_MissingNotesExact ==
    result.op = "missingNotes" =>
        LET r == result.value.results
        IN  /\ {r[i].name : i \in DOMAIN r} = AbsentTargets
            /\ Len(r) = Cardinality(AbsentTargets)
            /\ \A i \in DOMAIN r :
                   /\ r[i].count = Cardinality(Sources(r[i].name))
                   /\ r[i].count = Len(r[i].referenced_by)
                   /\ Range(r[i].referenced_by)
                          = {normalize(m.name) : m \in Sources(r[i].name)}
            /\ \A i \in DOMAIN r : \A j \in DOMAIN r :
                   i < j => r[i].count >= r[j].count

\* Witness of C13: two entries, one of them for a target that one document
\* links twice and that is counted once.
C13_Witness ==
    /\ result.op = "missingNotes"
    /\ Len(result.value.results) >= 2
    /\ \E e \in Range(result.value.results) :
           /\ e.count = 1
           /\ \E m \in Notes(state) :
                  \E i \in DOMAIN m.wikilinks : \E j \in DOMAIN m.wikilinks :
                      /\ i # j
                      /\ normalize(m.wikilinks[i]) = e.name
                      /\ normalize(m.wikilinks[j]) = e.name

-----------------------------------------------------------------------------
(* traverse called with an array of names.  Its parameter is one string:   *)
(* resolve hands the argument to normalize, whose noteName.trim() is not a *)
(* function on an array.                                                   *)

traverseArray(noteNames, maxDepth, st) == [threw |-> "TypeError"]

RootLists ==
    {<<r>> : r \in TraverseNames}
        \cup {<<r[1], r[2]>> : r \in TraverseNames \X TraverseNames}

DoTraverseArray ==
    \E noteNames \in RootLists, maxDepth \in 0..MaxDepth :
        Answer("traverseArray", <<noteNames, maxDepth>>,
               traverseArray(noteNames, maxDepth, state))

NextRoots == BuildGraph \/ DoTraverse \/ DoTraverseArray \/ Respond

SpecRoots == InitTraverse /\ [][NextRoots]_vars

\* The pairs <<path, depth>> of the nodes of a traversal result.
NodesOf(v) ==
    IF "notes" \in DOMAIN v
    THEN {<<v.notes[i].path, v.notes[i].depth>> : i \in DOMAIN v.notes}
    ELSE {}

\* The nodes that the traversals from each single root give.
SingleRootNodes(roots, maxDepth) ==
    UNION {NodesOf(traverse(roots[i], maxDepth, state)) : i \in DOMAIN roots}

\* C14: traverse of a list of roots that all resolve returns a traversal
\* whose nodes include every node of the traversal from each single root,
\* each once and at the smallest of its depths.
C14_MultiRootUnion ==
    (/\ result.op = "traverseArray"
     /\ \A i \in DOMAIN result.args[1] :
            resolve(result.args[1][i], state) # Null) =>
        LET v == result.value
            single == SingleRootNodes(result.args[1], result.args[2])
        IN  /\ "notes" \in DOMAIN v
            /\ \A n \in single :
                   \E k \in NodesOf(v) :
                       /\ k[1] = n[1]
                       /\ \A o \in single : o[1] = n[1] => k[2] <= o[2]
            /\ \A i \in DOMAIN v.notes : \A j \in DOMAIN v.notes :
                   v.notes[i].path = v.notes[j].path => i = j

-----------------------------------------------------------------------------
(* Rebuild.  rebuildGraph(state) re-scans the vault, constructs a new      *)
(* index in full and then installs it in the state object the tools hold;  *)
(* calls that arrive between the two steps are answered from the index     *)
(* still installed.                                                        *)

\* What one file of a vault under rebuild links to.
RebuildLinks == { <<>>, << <<"b">> >>, << <<"x">> >> }

RebuildVaults ==
    {[i \in 1..p[1] |-> File(i, DistinctNames[i], p[2][i], <<>>)] :
        p \in (1..MaxNotes) \X [1..MaxNotes -> RebuildLinks]}

InitRebuild == InitWith(RebuildVaults)

\* A variant that installs the notes and leaves the adjacency maps.
InstallNotesOnly(container, snapshot) ==
    [container EXCEPT !.notes = snapshot.notes]

\* The state object with every field of the new index in it.
Install(container, snapshot) ==
    [container EXCEPT !.notes = snapshot.notes,
                      !.forward = snapshot.forward,
                      !.backward = snapshot.backward,
                      !.missing = snapshot.missing]

\* The vault is scanned again, as it is now, and the new index constructed.
RebuildConstruct ==
    /\ pc = "serve"
    /\ pending = NoPending
    /\ vault' \in RebuildVaults
    /\ pending' = buildGraph(vault')
    /\ UNCHANGED <<pc, state, result>>

RebuildInstall ==
    /\ pc = "serve"
    /\ pending # NoPending
    /\ state' = Install(state, pending)
    /\ pending' = NoPending
    /\ UNCHANGED <<vault, pc, result>>

NextRebuild ==
    BuildGraph \/ RebuildConstruct \/ RebuildInstall \/ DoStats \/ Respond

SpecRebuild == InitRebuild /\ [][NextRebuild]_vars

\* C15: whatever the interleaving of rebuilds and calls, the notes, forward,
\* backward and missing maps that a call finds in the state object belong
\* to one build, and the state object is the one the tools were given.
C15_AtomicSwap ==
    Built =>
        /\ [forward |-> state.forward, backward |-> state.backward,
            missing |-> state.missing] = buildAdjacency(state.notes)
        /\ state.vaultPath = VaultPath

\* Witness of C15: a call answered between the construction of a different
\* index and its installation.
C15_Witness ==
    /\ result.op = "stats"
    /\ pending # NoPending
    /\ pending.notes # state.notes
    /\ pending.missing # state.missing
    /\ result.value = stats(state)

-----------------------------------------------------------------------------
(* Tag filters: passesTagFilter on a note, and filterNotes with tags and   *)
(* excludeTags, over vaults whose notes carry frontmatter and inline tags. *)

\* The frontmatter tags and the inline tags of one file.
TagPairs ==
    { << <<>>, <<>> >>,
      << << <<"A">> >>, <<>> >>,
      << <<>>, << <<"a">> >> >>,
      << << <<"b">> >>, << <<"A">> >> >>,
      << << <<"#", "a">> >>, <<>> >> }

TaggedFile(i, pair) ==
    [File(i, DistinctNames[i], <<>>, <<>>) EXCEPT
        !.frontmatterTags = pair[1], !.inlineTags = pair[2]]

TagVaults ==
    {[i \in 1..p[1] |-> TaggedFile(i, p[2][i])] :
        p \in (1..MaxNotes) \X [1..MaxNotes -> TagPairs]}

\* The values of a tags or excludeTags option.
TagTermLists ==
    { Null, Some(<<>>), Some(<< <<"a">> >>), Some(<< <<"#", "A">> >>),
      Some(<< <<"x">>, <<"B">> >>), Some(<< <<"#", "#", "a">> >>) }

InitTags == InitWith(TagVaults)

DoPassesTagFilter ==
    \E i \in DOMAIN state.notes.vals, tags \in TagTermLists,
       excludeTags \in TagTermLists :
        Answer("passesTagFilter", <<state.notes.vals[i], tags, excludeTags>>,
               passesTagFilter(state.notes.vals[i], tags, excludeTags))

DoFilterByTags ==
    \E tags \in TagTermLists, excludeTags \in TagTermLists :
        LET opts == [NoOptions EXCEPT !.tags = tags,
                                      !.excludeTags = excludeTags]
        IN  Answer("filterNotes", <<opts>>,
                   filterNotes(state.notes, state.vaultPath, opts))

NextTags == BuildGraph \/ DoPassesTagFilter \/ DoFilterByTags \/ Respond

SpecTags == InitTags /\ [][NextTags]_vars

\* The tags of a note, lower-cased.
NoteTagSet(note) ==
    {toLowerCase(t) : t \in Range(note.frontmatterTags) \cup Range(note.inlineTags)}

\* The terms of a filter list, one leading "#" dropped, lower-cased.
TermSet(terms) ==
    {toLowerCase(IF t # <<>> /\ Head(t) = "#" THEN Tail(t) ELSE t) :
        t \in Range(terms)}

TagVerdict(note, tags, excludeTags) ==
    /\ \/ Falsy(tags)
       \/ TermSet(tags.some) \cap NoteTagSet(note) # {}
    /\ \/ Falsy(excludeTags)
       \/ TermSet(excludeTags.some) \cap NoteTagSet(note) = {}

\* C16: passesTagFilter holds exactly when the include list is unset or
\* empty or shares a term with the tags of the note, and the exclude list
\* shares none, terms compared without case and without one leading "#";
\* filterNotes keeps exactly the notes with that verdict.
C16_TagFilterVerdict ==
    /\ result.op = "passesTagFilter" =>
           (result.value
               <=> TagVerdict(result.args[1], result.args[2], result.args[3]))
    /\ result.op = "filterNotes" =>
           Range(result.value.vals)
               = {n \in Notes(state) :
                     TagVerdict(n, result.args[1].tags,
                                result.args[1].excludeTags)}

\* Witness of C16: a note passes on an inline tag that differs in case from
\* a term written with "#", while another term of the call is no tag of it.
C16_Witness ==
    /\ result.op = "passesTagFilter"
    /\ result.value
    /\ result.args[2] = Some(<< <<"#", "A">> >>)
    /\ result.args[3] = Some(<< <<"x">>, <<"B">> >>)
    /\ result.args[1].frontmatterTags = <<>>
    /\ result.args[1].inlineTags = << <<"a">> >>

-----------------------------------------------------------------------------
(* Date filters: filterNotes with modifiedAfter and modifiedBefore.  The   *)
(* file in folder i was modified at instant i.                             *)

\* The values of a date option: unset, the empty string, a date string for
\* an instant, and text that new Date() cannot parse.
DateStrings ==
    {Null, Some([text |-> <<>>]), Some([text |-> <<"x">>])}
        \cup {Some([ms |-> t]) : t \in 0..(MaxNotes + 1)}

InitDates == InitWith(PageVaults)

DoFilterByDates ==
    \E after \in DateStrings, before \in DateStrings :
        LET opts == [NoOptions EXCEPT !.modifiedAfter = after,
                                      !.modifiedBefore = before]
        IN  Answer("filterNotes", <<opts>>,
                   filterNotes(state.notes, state.vaultPath, opts))

NextDates == BuildGraph \/ DoFilterByDates \/ Respond

SpecDates == InitDates /\ [][NextDates]_vars

\* The option is unset or a date string for an instant.
ValidOrUnset(d) == d = Null \/ "ms" \in DOMAIN d.some

\* The option is non-empty text that is no date.
Unparsable(d) ==
    /\ d # Null
    /\ "text" \in DOMAIN d.some
    /\ d.some.text # <<>>

\* C17: with date strings that parse, the filter keeps exactly the notes
\* modified at or after modifiedAfter and strictly before modifiedBefore.
C17_DateBoundsInclusiveExclusive ==
    (/\ result.op = "filterNotes"
     /\ ValidOrUnset(result.args[1].modifiedAfter)
     /\ ValidOrUnset(result.args[1].modifiedBefore)) =>
        Range(result.value.vals)
            = {n \in Notes(state) :
                  /\ result.args[1].modifiedAfter # Null
                         => n.mtime >= result.args[1].modifiedAfter.some.ms
                  /\ result.args[1].modifiedBefore # Null
                         => n.mtime < result.args[1].modifiedBefore.some.ms}

\* C18: a modifiedAfter or modifiedBefore that does not parse as a date
\* makes the filter keep no note.
C18_InvalidDateMatchesNothing ==
    (/\ result.op = "filterNotes"
     /\ \/ Unparsable(result.args[1].modifiedAfter)
        \/ Unparsable(result.args[1].modifiedBefore)) =>
        MapSize(result.value) = 0

-----------------------------------------------------------------------------
(* Folder scope: isNoteInFolder on the notes of vaults whose files lie in  *)
(* the root, in folder 1, in its sibling 11 and in its subfolder 1/x.      *)

Folders ==
    { <<>>, <<"1", "/">>, <<"1", "1", "/">>, <<"1", "/", "x", "/">> }

FileIn(folder, i) ==
    [File(i, DistinctNames[i], <<>>, <<>>) EXCEPT
        !.path = VaultPath \o <<"/">> \o folder \o DistinctNames[i] \o <<".md">>]

\* The UTF-16 code unit that Array.prototype.sort compares; ".md" stands
\* at its first character.
CodeUnit(c) ==
    CASE c = ".md" -> 46
      [] c = "/" -> 47
      [] c = "1" -> 49
      [] c = "A" -> 65
      [] c = "_" -> 95
      [] c = "a" -> 97
      [] c = "b" -> 98
      [] c = "v" -> 118
      [] c = "x" -> 120

PathBefore(p, q) ==
    LexCompare([i \in DOMAIN p |-> CodeUnit(p[i])],
               [i \in DOMAIN q |-> CodeUnit(q[i])]) < 0

\* The vaults whose files scanVault returns in this order: sorted by path.
FolderVaults ==
    {v \in {[i \in 1..p[1] |-> FileIn(p[2][i], i)] :
               p \in (1..MaxNotes) \X [1..MaxNotes -> Folders]} :
        \A i \in 1..(Len(v) - 1) : PathBefore(v[i].path, v[i + 1].path)}

Scopes ==
    { <<>>, <<"1">>, <<"1", "/">>, <<"1", "/", "/">>, <<"1", "1">>,
      <<"1", "/", "x">>, <<"x">> }

InitFolders == InitWith(FolderVaults)

DoIsNoteInFolder ==
    \E i \in DOMAIN state.notes.vals, folder \in Scopes :
        Answer("isNoteInFolder", <<state.notes.vals[i], folder>>,
               isNoteInFolder(state.notes.vals[i], state.vaultPath, folder))

NextFolders == BuildGraph \/ DoIsNoteInFolder \/ Respond

SpecFolders == InitFolders /\ [][NextFolders]_vars

EndsWithSlash(s) == s # <<>> /\ s[Len(s)] = "/"

\* The scope without the separators it ends with.
RECURSIVE WithoutTrailingSlashes(_)
WithoutTrailingSlashes(s) ==
    IF EndsWithSlash(s) THEN WithoutTrailingSlashes(SubSeq(s, 1, Len(s) - 1))
    ELSE s

\* The scope without one separator at its end.
WithoutOneTrailingSlash(s) ==
    IF EndsWithSlash(s) THEN SubSeq(s, 1, Len(s) - 1) ELSE s

\* C19 as claimed: a note is in the scope exactly when its path relative to
\* the vault starts with the scope brought to end with exactly one "/".
C19_Claimed ==
    result.op = "isNoteInFolder" =>
        (result.value
            <=> startsWith(RelPath(result.args[1], VaultPath),
                           WithoutTrailingSlashes(result.args[2]) \o <<"/">>))

\* C19, amended: a note is in the scope exactly when its relative path
\* starts with the scope, less one "/" at its end if it has one, followed
\* by "/"; a scope that does not end with "/" selects what the scope with
\* "/" appended selects.
C19_FolderScope ==
    result.op = "isNoteInFolder" =>
        /\ result.value
               <=> startsWith(RelPath(result.args[1], VaultPath),
                              WithoutOneTrailingSlash(result.args[2]) \o <<"/">>)
        /\ ~EndsWithSlash(result.args[2]) =>
               (result.value
                   <=> isNoteInFolder(result.args[1], VaultPath,
                                      result.args[2] \o <<"/">>))

\* Witness of C19: a note of folder 1 is selected by the scope "1" in a
\* vault that also has a note in the sibling folder 11.
C19_Witness ==
    /\ result.op = "isNoteInFolder"
    /\ result.value
    /\ result.args[2] = <<"1">>
    /\ \E m \in Notes(state) :
           startsWith(RelPath(m, VaultPath), <<"1", "1", "/">>)

-----------------------------------------------------------------------------
(* Content search with queries that differ in letter case, over vaults     *)
(* whose files have lines in both cases, with and without outer blanks.    *)

SearchContents ==
    { <<>>, <<"a">>, <<" ", "A", "b", " ">>, <<"b", "\n", "A">> }

SearchVaults ==
    {[i \in 1..p[1] |-> File(i, DistinctNames[i], <<>>, p[2][i])] :
        p \in (1..MaxNotes) \X [1..MaxNotes -> SearchContents]}

CaseQueries == { <<>>, <<"a">>, <<"A">>, <<"a", "B">>, <<"A", "b">> }

SearchOpts == {Unpaged, [limit |-> Some(1), offset |-> Some(1)]}

InitSearch == InitWith(SearchVaults)

DoSearchCase ==
    \E opts \in SearchOpts, query \in CaseQueries :
        Answer("search", <<opts, query>>, search(query, state, opts))

NextSearch == BuildGraph \/ DoSearchCase \/ Respond

SpecSearch == InitSearch /\ [][NextSearch]_vars

SameUpToCase(x, y) ==
    Len(x) = Len(y) /\ \A i \in DOMAIN x : SameLetter(x[i], y[i])

\* The result names line number k of the note, trimmed, and that line
\* contains the query when both are lower-cased.
IsMatchOf(r, note, query) ==
    LET lines == split(note.content)
    IN  /\ r.file = note.name
        /\ r.path = note.path
        /\ r.line \in DOMAIN lines
        /\ r.text = trim(lines[r.line])
        /\ includes(toLowerCase(lines[r.line]), toLowerCase(query))

\* C20: a query in another letter case gets the same total and the same
\* results, and every result is a line of a document that contains the
\* query without regard to case, with its 1-based number and trimmed text.
C20_SearchCaseInsensitive ==
    result.op = "search" =>
        /\ \A other \in CaseQueries :
               SameUpToCase(result.args[2], other) =>
                   LET v == search(other, state, result.args[1])
                   IN  /\ v.total = result.value.total
                       /\ v.results = result.value.results
        /\ \A i \in DOMAIN result.value.results :
               \E note \in Notes(state) :
                   IsMatchOf(result.value.results[i], note, result.args[2])

\* Witness of C20: an upper-case query finds the second line of a note and
\* a line in lower case.
C20_Witness ==
    /\ result.op = "search"
    /\ result.args[2] = <<"A">>
    /\ \E r \in Range(result.value.results) : r.line = 2
    /\ \E r \in Range(result.value.results) : r.text = <<"a">>
    /\ \E r \in Range(result.value.results) : r.text = <<"A", "b">>

-----------------------------------------------------------------------------
(* Shortest paths of forward links through existing documents, against     *)
(* which the depths and the node set of a traversal are stated.            *)

\* The keys of the existing documents that the document under key links to.
LinkKeys(key) ==
    LET doc == MapGet(state.notes, key)
    IN  {normalize(doc.wikilinks[i]) : i \in DOMAIN doc.wikilinks}
            \cap Keys(state.notes)

\* The keys at most d links away from the root key.
RECURSIVE Within(_, _)
Within(rootKey, d) ==
    IF d = 0 THEN {rootKey}
    ELSE LET near == Within(rootKey, d - 1)
         IN  near \cup UNION {LinkKeys(k) : k \in near}

Distance(rootKey, key) ==
    Min({d \in 0..MapSize(state.notes) : key \in Within(rootKey, d)})

\* traverse has returned a traversal (no error, no exception).
Walked == Traversed /\ "root" \in DOMAIN result.value

\* C21: every node of a traversal is returned once, at the depth that is
\* the length of the shortest path of forward links from the root to it
\* through existing documents.
C21_DepthIsShortestPath ==
    Walked =>
        LET ns == result.value.notes
            rootKey == normalize(result.args[1])
        IN  /\ \A i \in DOMAIN ns : \A j \in DOMAIN ns :
                   ns[i].path = ns[j].path => i = j
            /\ \A i \in DOMAIN ns :
                   /\ normalize(ns[i].name) \in Within(rootKey, result.args[2])
                   /\ ns[i].depth = Distance(rootKey, normalize(ns[i].name))

\* Witness of C21: a node that the root links to and that another node at
\* depth 1 links to as well is returned at depth 1.
C21_Witness ==
    /\ Walked
    /\ result.args[2] >= 2
    /\ \E n \in Range(result.value.notes) : \E m \in Range(result.value.notes) :
           /\ n.depth = 1
           /\ m.depth = 1
           /\ n.path # m.path
           /\ normalize(n.name) \in LinkKeys(normalize(m.name))

\* The link targets of the document under key that are not documents.
AbsentLinkKeys(key) ==
    LET doc == MapGet(state.notes, key)
    IN  {normalize(doc.wikilinks[i]) : i \in DOMAIN doc.wikilinks}
            \ Keys(state.notes)

\* The keys of the returned nodes that are shallower than a depth.
Shallower(v, d) ==
    {normalize(v.notes[i].name) :
        i \in {j \in DOMAIN v.notes : v.notes[j].depth < d}}

\* C22: a traversal does not expand the nodes at depth maxDepth: they are
\* returned, no node is deeper, every node below the root is a target of a
\* shallower node, and the missing targets are exactly the absent targets of
\* the nodes shallower than maxDepth.
C22_StopsAtMaxDepth ==
    Walked =>
        LET v == result.value
            rootKey == normalize(result.args[1])
            maxDepth == result.args[2]
            inner == Shallower(v, maxDepth)
            returned == {normalize(v.notes[i].name) : i \in DOMAIN v.notes}
        IN  /\ \A i \in DOMAIN v.notes : v.notes[i].depth <= maxDepth
            /\ \A k \in Within(rootKey, maxDepth) :
                   Distance(rootKey, k) = maxDepth => k \in returned
            /\ \A i \in DOMAIN v.notes :
                   v.notes[i].depth > 0 =>
                       \E k \in inner : normalize(v.notes[i].name) \in LinkKeys(k)
            /\ {v.missing[i].name : i \in DOMAIN v.missing}
                   = UNION {AbsentLinkKeys(k) : k \in inner}

\* Witness of C22: a node at depth maxDepth links to a document that is not
\* returned and to an absent target that is not reported.
C22_Witness ==
    /\ Walked
    /\ \E n \in Range(result.value.notes) :
           /\ n.depth = result.args[2]
           /\ \E k \in LinkKeys(normalize(n.name)) :
                  \A m \in Range(result.value.notes) : normalize(m.name) # k
           /\ \E t \in AbsentLinkKeys(normalize(n.name)) :
                  \A m \in Range(result.value.missing) : m.name # t

\* C23: the nodes of a traversal are in ascending order of depth, and nodes
\* of the same depth are in ascending order of name.
C23_NotesByDepthThenName ==
    Walked =>
        LET ns == result.value.notes
        IN  \A i \in DOMAIN ns : \A j \in DOMAIN ns :
                i < j =>
                    \/ ns[i].depth < ns[j].depth
                    \/ /\ ns[i].depth = ns[j].depth
                       /\ localeCompare(ns[i].name, ns[j].name) <= 0

\* Witness of C23: two nodes of depth 1 are returned in the order of their
\* names although the root links to them in the other order.
C23_Witness ==
    /\ Walked
    /\ LET ns == result.value.notes
           links == MapGet(state.forward, normalize(result.args[1]))
       IN  \E i \in DOMAIN ns : \E j \in DOMAIN ns :
               /\ i < j
               /\ ns[i].depth = 1
               /\ ns[j].depth = 1
               /\ \E p \in DOMAIN links : \E q \in DOMAIN links :
                      /\ p < q
                      /\ links[p] = normalize(ns[j].name)
                      /\ links[q] = normalize(ns[i].name)

\* C24: the missing list of a traversal is in ascending order of target name
\* and holds each unresolved target once.
C24_MissingSortedOnce ==
    Walked =>
        LET ms == result.value.missing
        IN  \A i \in DOMAIN ms : \A j \in DOMAIN ms :
                i < j => localeCompare(ms[i].name, ms[j].name) < 0

-----------------------------------------------------------------------------
(* The index as a function of the order in which the files reach the       *)
(* builder's loop.                                                         *)

\* Names of which the first two have different keys and one fuzzy key, and
\* the third has the key of the first.
OrderNames == << <<"a", "_", "b">>, <<"a", "-", "b">>, <<"A", "_", "b">>, <<"b">> >>

OrderLinks == { <<>>, << <<"a", "_", "b">> >> }

OrderVaults ==
    {[i \in 1..p[1] |-> File(i, OrderNames[p[2][i]], p[3][i], <<>>)] :
        p \in {q \in (1..MaxNotes) \X SeqsUpTo(DOMAIN OrderNames, MaxNotes)
                         \X SeqsUpTo(OrderLinks, MaxNotes) :
                  Len(q[2]) = q[1] /\ Len(q[3]) = q[1]}}

OrderQueries == { <<"a", "b">>, <<"a", "-", "b">>, <<"a", "_", "b">> }

Orderings(n) == {o \in [1..n -> 1..n] : \A i, j \in 1..n : o[i] = o[j] => i = j}

InitOrder == InitWith(OrderVaults)

\* The loop of buildGraph run over the same paths in another order.
BuildSupplied ==
    /\ pc = "start"
    /\ \E o \in Orderings(Len(vault)) :
           state' = buildGraph([i \in DOMAIN vault |-> vault[o[i]]])
    /\ pc' = "serve"
    /\ UNCHANGED <<vault, result, pending>>

DoResolveSupplied ==
    \E name \in OrderQueries : Answer("resolve", <<name>>, resolve(name, state))

NextOrder == BuildGraph \/ BuildSupplied \/ DoResolveSupplied \/ Respond

SpecOrder == InitOrder /\ [][NextOrder]_vars

\* Two maps of sets hold the same sets under the same keys.
SameSets(m1, m2) ==
    /\ Keys(m1) = Keys(m2)
    /\ \A k \in Keys(m1) : Range(MapGet(m1, k)) = Range(MapGet(m2, k))

\* Two indexes map the same keys to the same documents and link sets.
SameIndex(s1, s2) ==
    /\ Keys(s1.notes) = Keys(s2.notes)
    /\ \A k \in Keys(s1.notes) : MapGet(s1.notes, k) = MapGet(s2.notes, k)
    /\ SameSets(s1.forward, s2.forward)
    /\ SameSets(s1.backward, s2.backward)
    /\ SameSets(s1.missing, s2.missing)

\* The index that buildGraph makes of the vault in the order of scanVault.
Scanned == buildGraph(vault)

DistinctKeys ==
    \A i, j \in DOMAIN vault :
        normalize(readNote(vault[i]).name) = normalize(readNote(vault[j]).name)
            => i = j

-----------------------------------------------------------------------------
(* All query operations on one server.                                     *)

InitQueries == InitWith(PageVaults)

NextQueries ==
    BuildGraph \/ DoResolve \/ DoBacklinks \/ DoOrphans \/ DoMissingNotes
        \/ DoTraverse \/ DoStats \/ DoSearch \/ DoFilterNotes \/ Respond

SpecQueries == InitQueries /\ [][NextQueries]_vars

QueryOps ==
    {"resolve", "backlinks", "orphans", "missingNotes", "traverse", "stats",
     "search", "filterNotes"}

-----------------------------------------------------------------------------
(* traverse one iteration of its loop at a time.                           *)

\* Per file, no link, links to the first two names (a self-link, and a cycle
\* when both files have them), or a link to the third name and one out of
\* the vault.
WalkLinks ==
    { <<>>, << <<"a">>, <<"B">> >>, << <<"a", "_", "b">>, <<"x">> >> }

\* A name that is a key, one that resolves by its fuzzy key at most, and one
\* that does not resolve.
WalkNames == { <<"a">>, <<"a", "-", "b">>, <<"x">> }

WalkVaults ==
    {[i \in 1..p[1] |-> File(i, DistinctNames[i], p[2][i], <<>>)] :
        p \in {q \in (1..MaxNotes) \X SeqsUpTo(WalkLinks, MaxNotes) :
                  Len(q[2]) = q[1]}}

InitWalk == InitWith(WalkVaults)

\* A variant that leaves a key that was already visited at the head of the
\* queue.
LoopBodyPeek(w, st) ==
    LET key == Head(w.queue)[1]
        depth == Head(w.queue)[2]
    IN  IF MapHas(w.visited, key) THEN w
        ELSE IF depth < w.maxDepth /\ MapHas(st.forward, key)
             THEN LET e == Expand(MapGet(st.forward, key), depth,
                                  Tail(w.queue), w.missingFound, st)
                  IN  [w EXCEPT !.queue = e.queue,
                                !.visited = MapSet(w.visited, key, depth),
                                !.missingFound = e.missingFound]
             ELSE [w EXCEPT !.queue = Tail(w.queue),
                            !.visited = MapSet(w.visited, key, depth)]

\* One iteration of the while loop of traverse.
LoopBody(w, st) ==
    LET key == Head(w.queue)[1]
        depth == Head(w.queue)[2]
    IN  IF MapHas(w.visited, key) THEN [w EXCEPT !.queue = Tail(w.queue)]
        ELSE IF depth < w.maxDepth /\ MapHas(st.forward, key)
             THEN LET e == Expand(MapGet(st.forward, key), depth,
                                  Tail(w.queue), w.missingFound, st)
                  IN  [w EXCEPT !.queue = e.queue,
                                !.visited = MapSet(w.visited, key, depth),
                                !.missingFound = e.missingFound]
             ELSE [w EXCEPT !.queue = Tail(w.queue),
                            !.visited = MapSet(w.visited, key, depth)]

\* A call of traverse is inside its loop.
InWalk == "queue" \in DOMAIN pending

\* traverse up to its loop: the error value for a name that does not
\* resolve, or the queue holding the start key.
WalkStart ==
    /\ pc = "serve"
    /\ result = NoResult
    /\ ~InWalk
    /\ \E noteName \in WalkNames, maxDepth \in 0..MaxDepth :
           IF resolve(noteName, state) = Null
           THEN /\ result' = [op |-> "traverse", args |-> <<noteName, maxDepth>>,
                              value |-> traverse(noteName, maxDepth, state)]
                /\ UNCHANGED pending
           ELSE /\ pending' = [noteName |-> noteName, maxDepth |-> maxDepth,
                               queue |-> <<<<normalize(noteName), 0>>>>,
                               visited |-> EmptyMap, missingFound |-> <<>>]
                /\ UNCHANGED result
    /\ UNCHANGED <<vault, pc, state>>

WalkStep ==
    /\ InWalk
    /\ pending.queue # <<>>
    /\ pending' = LoopBody(pending, state)
    /\ UNCHANGED <<vault, pc, state, result>>

\* The loop has ended: traverse builds and returns its value.
WalkFinish ==
    /\ InWalk
    /\ pending.queue = <<>>
    /\ result' = [op |-> "traverse",
                  args |-> <<pending.noteName, pending.maxDepth>>,
                  value |-> Report(resolve(pending.noteName, state),
                                   pending.maxDepth,
                                   [visited |-> pending.visited,
                                    missingFound |-> pending.missingFound],
                                   state)]
    /\ pending' = NoPending
    /\ UNCHANGED <<vault, pc, state>>

NextWalk == BuildGraph \/ WalkStart \/ WalkStep \/ WalkFinish \/ Respond

SpecWalk == InitWalk /\ [][NextWalk]_vars

\* The loop is synchronous code of one callback: it keeps running.
SpecWalkFair == SpecWalk /\ WF_vars(WalkStep) /\ WF_vars(WalkFinish)

\* C27: every call of traverse that enters its loop leaves it and returns,
\* whatever the index (cycles and self-links included) and maxDepth.
C27_TraverseTerminates == InWalk ~> (~InWalk /\ Traversed)

\* Witness of C27: traverse has returned from a walk of at least two links
\* over an index where a document links to itself and two documents link to
\* each other.
C27_Witness ==
    /\ Traversed
    /\ "threw" \notin DOMAIN result.value
    /\ "error" \notin DOMAIN result.value
    /\ result.args[2] >= 2
    /\ \E k \in Keys(state.notes) : k \in LinkKeys(k)
    /\ \E k \in Keys(state.notes) : \E l \in LinkKeys(k) :
           k # l /\ k \in LinkKeys(l)

\* C28: for a root that is a key of notes, the nodes of traverse are exactly
\* the documents that at most maxDepth forward links through existing
\* documents lead to from the root.
C28_NodesAreReachableSet ==
    (Traversed /\ MapHas(state.notes, normalize(result.args[1]))) =>
        /\ "root" \in DOMAIN result.value
        /\ {result.value.notes[i].path : i \in DOMAIN result.value.notes}
               = {MapGet(state.notes, k).path :
                      k \in Within(normalize(result.args[1]), result.args[2])}

\* Witness of C28: the root is a key, a document one link away is returned
\* and a document further away is not.
C28_Witness ==
    /\ Walked
    /\ MapHas(state.notes, normalize(result.args[1]))
    /\ \E n \in Range(result.value.notes) : n.depth = 1
    /\ \E k \in Keys(state.notes) :
           /\ k \notin Within(normalize(result.args[1]), result.args[2])
           /\ k \in Within(normalize(result.args[1]), MapSize(state.notes))

-----------------------------------------------------------------------------
(* backlinks over vaults with shared keys and unreadable files.            *)

NextBacklinks == BuildGraph \/ DoBacklinks \/ Respond

SpecBacklinks == Init /\ [][NextBacklinks]_vars

\* C29: after buildGraph the keys of forward are the keys of notes and every
\* source in a set of backward or of missing is a key of notes; so no
\* element that backlinks returns has the path null.
C29_SourcesAreDocuments ==
    Built =>
        /\ Keys(state.forward) = Keys(state.notes)
        /\ \A t \in Keys(state.backward) :
               Members(state.backward, t) \subseteq Keys(state.notes)
        /\ \A t \in Keys(state.missing) :
               Members(state.missing, t) \subseteq Keys(state.notes)
        /\ result.op = "backlinks" =>
               \A i \in DOMAIN result.value : result.value[i].path # Null

\* Witness of C29: two files share a key, and backlinks returns two sources
\* of a target that is not a document.
C29_Witness ==
    /\ Built
    /\ MapSize(state.notes) < Len(vault)
    /\ result.op = "backlinks"
    /\ Len(result.value) >= 2
    /\ MapHas(state.missing, normalize(result.args[1]))

-----------------------------------------------------------------------------
(* stats next to the lists it counts.                                      *)

\* Per file: its frontmatter tags, its inline tags and its links.
StatsFiles ==
    { << <<>>, <<>>, <<>> >>,
      << << <<"A">> >>, <<>>, << <<"x">> >> >>,
      << <<>>, << <<"a">> >>, << <<"B">>, <<"x">> >> >>,
      << <<>>, <<>>, << <<"a">> >> >> }

StatsVaults ==
    {[i \in 1..p[1] |->
         [File(i, DistinctNames[i], p[2][i][3], <<>>) EXCEPT
             !.frontmatterTags = p[2][i][1], !.inlineTags = p[2][i][2]]] :
        p \in {q \in (1..MaxNotes) \X SeqsUpTo(StatsFiles, MaxNotes) :
                  Len(q[2]) = q[1]}}

InitStats == Init \/ InitWith(StatsVaults)

NextStats ==
    BuildGraph \/ DoStats \/ DoOrphansUnpaged \/ DoMissingNotesUnpaged
        \/ Respond

SpecStats == InitStats /\ [][NextStats]_vars

\* C30: the counts of stats agree with the index and with the lists: tagged
\* and untagged add up to total_notes, which is the number of documents;
\* orphans is the total of orphans and missing_links the total of
\* missingNotes.
C30_StatsAgreeWithLists ==
    /\ result.op = "stats" =>
           /\ result.value.tagged + result.value.untagged
                  = result.value.total_notes
           /\ result.value.tagged >= 0
           /\ result.value.untagged >= 0
           /\ result.value.total_notes = Cardinality(Notes(state))
           /\ result.value.orphans = orphans(state, Unpaged).total
           /\ result.value.missing_links = missingNotes(state, Unpaged).total
    /\ result.op = "orphans" => result.value.total = stats(state).orphans
    /\ result.op = "missingNotes" =>
           result.value.total = stats(state).missing_links

\* Witness of C30: stats of an index with a tagged and an untagged document,
\* an orphan, a document that is linked to, and a missing target with two
\* sources.
C30_Witness ==
    /\ result.op = "stats"
    /\ result.value.tagged >= 1
    /\ result.value.untagged >= 1
    /\ result.value.orphans >= 1
    /\ result.value.orphans < result.value.total_notes
    /\ result.value.missing_links >= 1
    /\ \E t \in Keys(state.missing) : Len(MapGet(state.missing, t)) >= 2

====
